---- MODULE Spec2Model ----
(***************************************************************************)
(* A model of the scroll-driven 3D narrative of mcpmagenta/secured2:       *)
(*   - DataProtectionJourney  (src/components/SimpleThreeJSCanvas.tsx,     *)
(*     lines 743-2800): a React component owning a Three.js scene, a GSAP  *)
(*     master timeline scrubbed by a ScrollTrigger and a                   *)
(*     requestAnimationFrame loop;                                         *)
(*   - DataJourneyScene (same file, lines 198-570): per-phase progress     *)
(*     state driven by a progress prop;                                    *)
(*   - the standalone renderer (src/utils/standaloneThreeJS.js);           *)
(*   - initThreeJSScene (threeJSRenderer.ts, src/unnamed/part_007);        *)
(*   - the react-three-fiber scenes DataTransformScene, ShredAnimation,    *)
(*     ShrinkAnimation, DataObject and QuantaMorphicScene.                 *)
(*                                                                         *)
(* Scroll progress is a fixed-point number: the integer P stands for       *)
(* P / Res.  The browser (animation-frame queue, timers, window listeners) *)
(* and GSAP's registry of live tweens / ScrollTriggers are modelled as     *)
(* fields of each component's state record.                                *)
(***************************************************************************)
EXTENDS Integers, FiniteSets, Sequences, TLC

VARIABLES
  dpj,     \* DataProtectionJourney: refs, React state, browser and GSAP registrations
  sa,      \* standaloneThreeJS.js: module-level state, DOM and browser registrations
  tjs,     \* initThreeJSScene: closure state of the instance, DOM and browser
  djs,     \* DataJourneyScene: progress prop and animationProgress ref
  r3f      \* the other react-three-fiber components: refs, props and materials

vars == <<dpj, sa, tjs, djs, r3f>>

----------------------------------------------------------------------------
(* Fixed point and bounds *)

Hundred == 100            \* the factor of Math.round(self.progress * 100)
Res == 10 * Hundred       \* progress P stands for P / Res (per-mille steps)
Progress == 0 .. Res

MaxRaf == 4               \* requestAnimationFrame calls modelled per instance
MaxErrors == 2            \* failing renders modelled per instance

\* Math.round of P/Res * 100: round half up
Round100(p) == (p * Hundred + (Res \div 2)) \div Res

----------------------------------------------------------------------------
(* DataProtectionJourney *)

ShrinkEnd == 350          \* self.progress < 0.35
ShredEnd == 700           \* self.progress < 0.70
BarShrinkEnd == 33        \* scrollProgress < 33
BarShredEnd == 66         \* scrollProgress < 66
MobileWidth == 768        \* containerWidth < 768
LeaveBackLimit == 100     \* self.progress < 0.1

\* stageFor with the Shrink interval closed on the right (p <= 0.35)
C1_stageFor_mutant(p) ==
  IF p <= ShrinkEnd THEN "shrink" ELSE IF p < ShredEnd THEN "shred" ELSE "secure"

\* the stage chosen by ScrollTrigger onUpdate
stageFor(p) ==
  IF p < ShrinkEnd THEN "shrink" ELSE IF p < ShredEnd THEN "shred" ELSE "secure"

\* getProgressBarColors().stageName, from the scrollProgress state (a percentage)
getProgressBarColors(scrollProgress) ==
  IF scrollProgress < BarShrinkEnd THEN "Shrink"
  ELSE IF scrollProgress < BarShredEnd THEN "Shred"
  ELSE "Secure"

NoTweens == [timeline |-> 0, orbit |-> 0, lockScale |-> 0, lockRotation |-> 0]

Widths == {500, 1000}     \* containerRef.current.clientWidth
Heights == {250, 500}     \* containerRef.current.clientHeight
NoSize == [w |-> 0, h |-> 0]

\* the geometries and materials one run of the object-creation effect creates
ResourceKinds ==
  {"dataGeometry", "dataMaterial", "shredGeometry", "shredMaterial",
   "lockGeometry", "lockMaterial", "orbitGeometry", "orbitMaterial"}
\* the kinds in the dispose lists of the object-creation cleanup
CleanupDisposes == {"lockGeometry", "orbitGeometry", "lockMaterial"}

\* results of Math.random() modelled for a shred child's fade-out start
\* (thousandths; Math.random() lies in [0, 1))
RandomDraws == {0, 500}

\* const startTime = 0.5 + (Math.random() * 0.1)
shredFadeStart(r) == 500 + ((r * 100) \div Res)

\* segments animateObjects adds to the master timeline: position parameter
\* (offset), delay and duration, in thousandths of a timeline second.  The
\* children of secureGroup are Groups (lock, orbit groups), none is a Mesh,
\* so the loops over secureGroup.children add no opacity segment.
timelineSegments ==
  { [name |-> "cameraShrink",   offset |-> 10,  delay |-> 0,  duration |-> 600],
    [name |-> "cameraShred",    offset |-> 400, delay |-> 0,  duration |-> 800],
    [name |-> "cameraSecure",   offset |-> 800, delay |-> 0,  duration |-> 500],
    [name |-> "dataScale",      offset |-> 0,   delay |-> 0,  duration |-> 600],
    [name |-> "dataFadeOut",    offset |-> 380, delay |-> 0,  duration |-> 300],
    [name |-> "shredSet",       offset |-> 400, delay |-> 0,  duration |-> 0],
    [name |-> "shredFadeIn",    offset |-> 400, delay |-> 0,  duration |-> 300],
    [name |-> "shredExplode0",  offset |-> 400, delay |-> 0,  duration |-> 500],
    [name |-> "shredExplode60", offset |-> 400, delay |-> 50, duration |-> 500],
    [name |-> "converge0",      offset |-> 800, delay |-> 0,  duration |-> 180],
    [name |-> "shackleClose",   offset |-> 700, delay |-> 0,  duration |-> 500],
    [name |-> "shackleBounce",  offset |-> 750, delay |-> 0,  duration |-> 100],
    [name |-> "shackleGlow",    offset |-> 850, delay |-> 0,  duration |-> 300],
    [name |-> "secureRotation", offset |-> 750, delay |-> 0,  duration |-> 150] }
  \cup { [name |-> "shredFadeOut", offset |-> shredFadeStart(r),
          delay |-> 0, duration |-> 500] : r \in RandomDraws }

\* the segments that animate material.opacity: the group whose Mesh children
\* they target and the opacity they animate to
opacityTweens ==
  { [name |-> "dataFadeOut",  group |-> "data",  to |-> 0],
    [name |-> "shredSet",     group |-> "shred", to |-> 0],
    [name |-> "shredFadeIn",  group |-> "shred", to |-> Res],
    [name |-> "shredFadeOut", group |-> "shred", to |-> 0] }

\* tl.set(group, { visible }, offset): the offsets at which the outgoing
\* group of a transition is hidden
transitionOffset ==
  [ShrinkToShred |-> 400, ShredToSecure |-> 820]

\* the groups a transition fades out and in
transitionGroups ==
  [ShrinkToShred |-> [out |-> "data",  in |-> "shred"],
   ShredToSecure |-> [out |-> "shred", in |-> "secure"]]

Transitions == {"ShrinkToShred", "ShredToSecure"}

\* material.opacity of a group's meshes as constructed (THREE's default 1;
\* gsap.set(child.material, { opacity: 1 }) for the data group)
constructedOpacity == [data |-> Res, shred |-> Res, secure |-> Res]

segmentEnd(g) == g.offset + g.delay + g.duration

\* tl.duration(): the latest end of the timeline's children (0 when empty)
timelineDuration(segments) ==
  IF segments = {} THEN 0
  ELSE LET last == CHOOSE g \in segments :
                     \A o \in segments : segmentEnd(o) <= segmentEnd(g)
       IN segmentEnd(last)

\* tl.progress(p): the playhead time is p times the timeline's duration
timelineTime(segments, p) == (p * timelineDuration(segments)) \div Res

\* the time at which a segment starts on the timeline
segmentStart(g) == g.offset + g.delay

\* the opacity segments applied to one mesh of a group; r is the mesh's
\* Math.random() draw (only the shred fade-out depends on it)
meshSegments(segments, group, r) ==
  {g \in segments :
     /\ \E o \in opacityTweens : o.name = g.name /\ o.group = group
     /\ g.name = "shredFadeOut" => g.offset = shredFadeStart(r)}

\* the opacity a segment animates to
tweenTo(g) == (CHOOSE o \in opacityTweens : o.name = g.name).to

\* the timeline renders its children in order of start time, and the
\* tl.set at 0.40 was added before the tl.to at 0.40
rendersBefore(h, g) ==
  \/ segmentStart(h) < segmentStart(g)
  \/ segmentStart(h) = segmentStart(g) /\ h.duration < g.duration

\* the time of the last write a started segment has made by time t
lastWrite(g, t) == IF t < segmentEnd(g) THEN t ELSE segmentEnd(g)

\* the segment whose write the material holds at time t
writer(cs, t) ==
  LET started == {g \in cs : segmentStart(g) <= t}
  IN CHOOSE g \in started :
       \A h \in started \ {g} :
         \/ lastWrite(h, t) < lastWrite(g, t)
         \/ lastWrite(h, t) = lastWrite(g, t) /\ rendersBefore(h, g)

\* a tween's position at time t in halves of its duration: 0 at its start,
\* 1 halfway, 2 at or after its end, -1 anywhere else.  The eases used on
\* opacity (sine.inOut, power1.inOut, power2.inOut) take 0, 1/2 and 1 to
\* themselves.
halves(g, t) ==
  IF t >= segmentEnd(g) THEN 2
  ELSE IF t <= segmentStart(g) THEN 0
  ELSE IF 2 * (t - segmentStart(g)) = g.duration THEN 1
  ELSE -1

\* material.opacity at timeline time t when the playhead has moved forward
\* from 0: a tl.to tween animates from the value the material holds when the
\* tween starts.  -1: t is not one of the instants at which the value is
\* fixed by the segments alone.
RECURSIVE opacityAt(_, _, _)
opacityAt(cs, group, t) ==
  IF {g \in cs : segmentStart(g) <= t} = {} THEN constructedOpacity[group]
  ELSE
    LET g == writer(cs, t)
        from == opacityAt({h \in cs : rendersBefore(h, g)}, group, segmentStart(g))
        k == halves(g, t)
    IN IF k = -1 \/ from = -1 THEN -1
       ELSE from + (((tweenTo(g) - from) * k) \div 2)

NoUpdate == [playheadSets |-> 0, redraws |-> 0]

\* the component instance before its first commit
dpjInit ==
  [ lifecycle         |-> "new",        \* "new" | "mounted" | "unmounted"
    canvasRef         |-> FALSE,        \* TRUE: non-null (also containerRef)
    rendererRef       |-> FALSE,
    sceneRef          |-> FALSE,
    cameraRef         |-> FALSE,
    groupRefs         |-> FALSE,        \* dataGroupRef, shredGroupRef, secureGroupRef
    animationFrameRef |-> 0,            \* 0: null, else a request id
    timelineRef       |-> FALSE,
    initCleanup       |-> "none",       \* the cleanup the scene-init effect returned
    rafCallbacks      |-> {},           \* pending requests: [id, cb]
    rafCount          |-> 0,            \* requests issued so far; ids are 1..rafCount
    interval          |-> FALSE,        \* animationCheckInterval is registered
    resizeListener    |-> FALSE,
    tweens            |-> NoTweens,     \* live (not killed) GSAP tweens, by kind
    builds            |-> 0,            \* runs of the object-creation effect
    undisposed        |-> {},           \* [build, kind]: created and not disposed
    inScene           |-> {},           \* builds whose groups are children of the scene
    scrollTriggers    |-> {},           \* live ScrollTrigger ids
    stProgress        |-> 0,            \* self.progress of the ScrollTrigger
    updated           |-> FALSE,        \* onUpdate has run at least once
    playhead          |-> 0,            \* tl.progress()
    segments          |-> {},           \* children of the current master timeline
    time              |-> 0,            \* tl.time(), in thousandths
    lastUpdate        |-> NoUpdate,     \* tl.progress(p) and render calls of the last onUpdate
    lastOrder         |-> <<>>,         \* the calls of the last onUpdate, in order
    pageTimer         |-> TRUE,         \* the page's initTimeout is pending
    scrollProgress    |-> 0,            \* React state, a percentage
    currentStage      |-> "initial",
    isMobile          |-> FALSE,
    container         |-> [w |-> 1000, h |-> 500],  \* clientWidth, clientHeight
    aspect            |-> NoSize,       \* camera.aspect is aspect.w / aspect.h
    rendererSize      |-> NoSize,       \* the last renderer.setSize(w, h)
    initError         |-> FALSE,        \* 'Error during initial renders' was logged
    loopErrors        |-> 0 ]           \* 'Error in animation loop' messages logged

RefsLive(j) == j.canvasRef /\ j.sceneRef /\ j.cameraRef /\ j.rendererRef

cancelAnimationFrame(q, id) == {r \in q : r.id # id}

requestAnimationFrame(j, cb) ==
  [j EXCEPT !.rafCount = @ + 1,
            !.rafCallbacks = @ \cup {[id |-> j.rafCount + 1, cb |-> cb]}]

\* const animate = () => {...}; fail: renderer.render throws in this call
animate(j, fail) ==
  IF ~RefsLive(j) THEN j
  ELSE IF fail
    THEN [j EXCEPT
            !.loopErrors = @ + 1,
            !.rafCallbacks = cancelAnimationFrame(@, j.animationFrameRef),
            !.animationFrameRef = 0]
    ELSE [requestAnimationFrame(j, "animate") EXCEPT
            !.animationFrameRef = j.rafCount + 1]

ensureAnimationIsRunning(j, fail) ==
  IF j.animationFrameRef = 0 /\ RefsLive(j) THEN animate(j, fail) ELSE j

\* ScrollTrigger.getAll().forEach(trigger => trigger.kill())
KillAllTriggers(j) == [j EXCEPT !.scrollTriggers = {}]

\* setupTimeline, then animateObjects (creates the component's ScrollTrigger)
setupAnimation(j) ==
  LET k == KillAllTriggers(j) IN
  IF ~(k.canvasRef /\ k.sceneRef)
    THEN [k EXCEPT !.timelineRef = FALSE, !.segments = {}, !.time = 0]
  ELSE [k EXCEPT !.tweens.timeline = 1,
                 !.timelineRef = TRUE,
                 !.playhead = 0,
                 !.segments = timelineSegments,
                 !.time = 0,
                 !.scrollTriggers = @ \cup {"dataJourney"}]

\* body of the scene-init useLayoutEffect; fail: the first render throws
sceneInitEffect(j, fail) ==
  IF ~j.canvasRef THEN j
  ELSE
    LET a == [KillAllTriggers(j) EXCEPT
                !.rafCallbacks = cancelAnimationFrame(@, j.animationFrameRef),
                !.animationFrameRef = 0,
                !.sceneRef = TRUE, !.cameraRef = TRUE, !.rendererRef = TRUE,
                !.aspect = j.container, !.rendererSize = j.container]
    IN IF fail
         THEN [a EXCEPT !.initError = TRUE, !.initCleanup = "full"]
         ELSE [animate(requestAnimationFrame(a, "oneShot"), FALSE) EXCEPT
                 !.interval = TRUE, !.initCleanup = "clearInterval"]

\* body of the object-creation useLayoutEffect
objectCreationEffect(j) ==
  IF ~j.sceneRef THEN j
  ELSE setupAnimation(
         [j EXCEPT !.groupRefs = TRUE,
                   !.builds = @ + 1,
                   !.undisposed = @ \cup [build : {j.builds + 1}, kind : ResourceKinds],
                   !.inScene = (IF j.groupRefs THEN {} ELSE @) \cup {j.builds + 1},
                   !.tweens.lockScale = @ + 1,
                   !.tweens.lockRotation = @ + 1,
                   !.tweens.orbit = 1])

\* cleanup returned by the scene-init effect
sceneInitCleanup(j) ==
  IF j.initCleanup = "clearInterval" THEN [j EXCEPT !.interval = FALSE]
  ELSE IF j.initCleanup = "full"
    THEN [j EXCEPT
            !.rafCallbacks = cancelAnimationFrame(@, j.animationFrameRef),
            !.animationFrameRef = 0,
            !.tweens.timeline = 0, !.timelineRef = FALSE,
            !.segments = {}, !.time = 0,
            !.scrollTriggers = {},
            !.inScene = IF j.sceneRef THEN {} ELSE @,
            !.rendererRef = FALSE, !.groupRefs = FALSE,
            !.sceneRef = FALSE, !.cameraRef = FALSE]
  ELSE j

\* cleanup returned by the object-creation effect
objectCreationCleanup(j) ==
  [j EXCEPT
     !.rafCallbacks = cancelAnimationFrame(@, j.animationFrameRef),
     !.animationFrameRef = 0,
     !.tweens.timeline = 0, !.timelineRef = FALSE,
     !.segments = {}, !.time = 0,
     !.scrollTriggers = {},
     !.tweens.orbit = 0,
     !.undisposed = {r \in @ : ~(r.build = j.builds /\ r.kind \in CleanupDisposes)},
     !.inScene = IF j.sceneRef THEN {} ELSE @ \ {j.builds},
     !.rendererRef = FALSE]

\* first commit: refs attached, layout effects, then passive effects
Mount(fail) ==
  /\ dpj.lifecycle = "new"
  /\ LET m == [dpj EXCEPT !.lifecycle = "mounted", !.canvasRef = TRUE]
         e == objectCreationEffect(sceneInitEffect(m, fail))
     IN dpj' = [e EXCEPT !.resizeListener = TRUE]
  /\ UNCHANGED <<sa, tjs, djs, r3f>>

\* unmount: effect cleanups in declaration order, then refs detached
Unmount ==
  /\ dpj.lifecycle = "mounted"
  /\ LET c1 == sceneInitCleanup(dpj)
         c2 == objectCreationCleanup(c1)
         c3 == KillAllTriggers([c2 EXCEPT !.resizeListener = FALSE])
     IN dpj' = [c3 EXCEPT !.lifecycle = "unmounted", !.canvasRef = FALSE]
  /\ UNCHANGED <<sa, tjs, djs, r3f>>

\* the oldest pending animation-frame request
NextRaf(q) == CHOOSE r \in q : \A o \in q : r.id <= o.id

\* the browser runs the oldest pending animation-frame callback
Frame(fail) ==
  /\ dpj.rafCallbacks # {}
  /\ dpj.rafCount < MaxRaf
  /\ fail => dpj.loopErrors < MaxErrors
  /\ LET r == NextRaf(dpj.rafCallbacks)
         j == [dpj EXCEPT !.rafCallbacks = @ \ {r}]
     IN dpj' = IF r.cb = "animate" THEN animate(j, fail) ELSE j
  /\ UNCHANGED <<sa, tjs, djs, r3f>>

\* setInterval(ensureAnimationIsRunning, 200) fires
IntervalTick(fail) ==
  /\ dpj.interval
  /\ dpj.rafCount < MaxRaf
  /\ fail => dpj.loopErrors < MaxErrors
  /\ dpj' = ensureAnimationIsRunning(dpj, fail)
  /\ UNCHANGED <<sa, tjs, djs, r3f>>

\* ScrollTrigger onUpdate with self.progress = p
onUpdate(j, p) ==
  [j EXCEPT !.stProgress = p,
            !.updated = TRUE,
            !.scrollProgress = Round100(p),
            !.currentStage = stageFor(p),
            !.lastUpdate = [playheadSets |-> 1,
                            redraws |-> IF j.rendererRef /\ j.sceneRef /\ j.cameraRef
                                          THEN 1 ELSE 0],
            !.lastOrder = IF j.rendererRef /\ j.sceneRef /\ j.cameraRef
                            THEN <<"render", "progress">>
                            ELSE <<"progress">>,
            !.playhead = p,
            !.time = timelineTime(j.segments, p)]

ScrollUpdate(p) ==
  /\ "dataJourney" \in dpj.scrollTriggers
  /\ dpj' = onUpdate(dpj, p)
  /\ UNCHANGED <<sa, tjs, djs, r3f>>

\* ScrollTrigger onLeaveBack: the scroll position moved back above the start
LeaveBack ==
  /\ "dataJourney" \in dpj.scrollTriggers
  /\ dpj.updated
  /\ dpj.stProgress = 0
  /\ dpj' = IF dpj.stProgress < LeaveBackLimit
              THEN [dpj EXCEPT !.playhead = 0, !.time = 0]
              ELSE dpj
  /\ UNCHANGED <<sa, tjs, djs, r3f>>

\* the resize listener; a change of isMobile re-runs the object-creation
\* effect (its cleanup, then its body)
handleResize(j) ==
  IF ~(j.cameraRef /\ j.rendererRef /\ j.canvasRef) THEN j
  ELSE LET small == j.container.w < MobileWidth
           k == [j EXCEPT !.isMobile = small,
                          !.aspect = j.container,
                          !.rendererSize = j.container]
       IN IF small # j.isMobile
            THEN objectCreationEffect(objectCreationCleanup(k))
            ELSE k

\* the container takes the size w x h and the window fires 'resize'
Resize(w, h) ==
  /\ dpj.lifecycle # "unmounted"
  /\ LET k == [dpj EXCEPT !.container = [w |-> w, h |-> h]]
     IN dpj' = IF k.resizeListener THEN handleResize(k) ELSE k
  /\ UNCHANGED <<sa, tjs, djs, r3f>>

\* the ScrollTriggers the page creates for itself (src/app/page.tsx): the
\* pin trigger of the data journey section and the text triggers
PageTriggers == {"pagePin", "pageText"}

\* the page's initTimeout fires, after DataProtectionJourney was mounted
PageInit ==
  /\ dpj.lifecycle # "new"
  /\ dpj.pageTimer
  /\ dpj' = [dpj EXCEPT !.pageTimer = FALSE,
                        !.scrollTriggers = @ \cup PageTriggers]
  /\ UNCHANGED <<sa, tjs, djs, r3f>>

----------------------------------------------------------------------------
(* DataTransformScene (src/components/DataVisualization.tsx) *)

DtsShrinkEnd == 350       \* value < 0.35
DtsShredEnd == 700        \* value < 0.70

\* const currentPhase = useTransform(scrollValue, ...)
currentPhase(value) ==
  IF value < DtsShrinkEnd THEN "shrink"
  ELSE IF value < DtsShredEnd THEN "shred"
  ELSE "secure"

----------------------------------------------------------------------------
(* The standalone renderer (src/utils/standaloneThreeJS.js) *)

MaxInits == 3             \* successful initScene calls modelled
Containers == {"a", "b"}  \* ids document.getElementById finds
ContainerIds == Containers \cup {"missing"}
SaProgressInputs == {-200, 0, 500, 1200}
SaPhaseInputs == {"intro", "shred"}
MinScale == 200           \* Math.max(0.2, ...)
ScaleSlope == 800         \* 1 - config.progress * 0.8

Max(a, b) == IF a > b THEN a ELSE b

\* const scale = Math.max(0.2, 1 - config.progress * 0.8)
cubeScaleFor(progress) == Max(MinScale, Res - ((progress * ScaleSlope) \div Res))

\* the guarded blocks of cleanupScene, in program order
saBlocks == <<"frame", "cube", "particles", "renderer", "scene", "rest">>
\* the blocks whose first call is a dispose() that can throw, and "none"
SaFaults == {"none", "cube", "particles", "renderer"}

\* module state at load; objects are numbered by the initScene call that made them
saInit ==
  [ scene           |-> 0,              \* 0: undefined / null
    camera          |-> 0,
    renderer        |-> 0,
    cube            |-> 0,
    particles       |-> 0,
    animationId     |-> 0,              \* 0: null, else a request id
    isInitialized   |-> FALSE,
    config          |-> [progress |-> 0, currentPhase |-> "intro"],
    inits           |-> 0,              \* scenes created so far
    disposed        |-> {},             \* renderers on which dispose() was called
    canvasIn        |-> [c \in Containers |-> {}],  \* canvases attached to each container
    aspectOf        |-> "none",         \* container whose size camera.aspect was last set from
    rafCallbacks    |-> {},             \* pending requests of animate, by id
    rafCount        |-> 0,
    resizeListeners |-> {},             \* registered handleResize closures: [inst, container]
    thrown          |-> FALSE,          \* a handler raised an uncaught exception
    cubeScale       |-> 0,              \* cube.scale of the current cube (0: no cube)
    lastInit        |-> "none",         \* last initScene: "none" | "ok" | "notFound" (logged, false)
    teardown        |-> <<>>,           \* steps of the last cleanupScene, in the order they ran
    faultAt         |-> "none",         \* block of the last cleanupScene whose dispose() threw
    propagated      |-> FALSE ]         \* that exception reached the caller of cleanupScene

\* function animate()
saAnimate(s) ==
  IF s.scene = 0 \/ s.camera = 0 \/ s.renderer = 0 \/ s.cube = 0 \/ s.particles = 0
    THEN s
    ELSE [s EXCEPT !.cubeScale = cubeScaleFor(s.config.progress),
                   !.rafCount = @ + 1,
                   !.rafCallbacks = @ \cup {s.rafCount + 1},
                   !.animationId = s.rafCount + 1]

\* whether the guarded block b of cleanupScene executes in the state s
saBlockRuns(s, b) ==
  CASE b = "frame" -> s.animationId # 0
    [] b = "cube" -> s.cube # 0
    [] b = "particles" -> s.particles # 0
    [] b = "renderer" -> s.renderer # 0
    [] b = "scene" -> s.scene # 0
    [] OTHER -> TRUE

\* the effect of the block b of cleanupScene; the final removeEventListener
\* names the module-level handleResize, which no one registered
saBlock(s, b) ==
  CASE b = "frame" ->
         [s EXCEPT !.rafCallbacks = @ \ {s.animationId},
                   !.animationId = 0,
                   !.teardown = Append(@, "cancelFrame")]
    [] b = "cube" ->
         [s EXCEPT !.cube = 0, !.cubeScale = 0,
                   !.teardown = @ \o <<"dispose", "detach", "nullRef">>]
    [] b = "particles" ->
         [s EXCEPT !.particles = 0,
                   !.teardown = @ \o <<"dispose", "detach", "nullRef">>]
    [] b = "renderer" ->
         [s EXCEPT !.disposed = @ \cup {s.renderer},
                   !.canvasIn = [c \in Containers |-> @[c] \ {s.renderer}],
                   !.renderer = 0,
                   !.teardown = @ \o <<"removeCanvas", "nullRef">>]
    [] b = "scene" ->
         [s EXCEPT !.scene = 0,
                   !.teardown = @ \o <<"detach", "nullRef">>]
    [] OTHER ->
         [s EXCEPT !.camera = 0,
                   !.isInitialized = FALSE,
                   !.teardown = Append(@, "nullRef")]

\* the blocks bs of cleanupScene run in order; the block failAt, if it
\* executes, throws at its first call and nothing catches the exception
RECURSIVE saTeardown(_, _, _)
saTeardown(s, bs, failAt) ==
  IF bs = <<>> THEN s
  ELSE IF ~saBlockRuns(s, Head(bs)) THEN saTeardown(s, Tail(bs), failAt)
  ELSE IF Head(bs) = failAt
    THEN [s EXCEPT !.faultAt = failAt, !.propagated = TRUE]
    ELSE saTeardown(saBlock(s, Head(bs)), Tail(bs), failAt)

\* export function cleanupScene(); failAt: the block whose dispose() throws
cleanupScene(s, failAt) ==
  IF ~s.isInitialized THEN s
  ELSE saTeardown([s EXCEPT !.teardown = <<>>, !.faultAt = "none", !.propagated = FALSE],
                  saBlocks, failAt)

\* export function initScene(containerId) without its leading cleanup
C10_initScene_mutant(s, containerId) ==
  IF containerId \notin Containers THEN [s EXCEPT !.lastInit = "notFound"]
  ELSE LET n == s.inits + 1
           b == [s EXCEPT
                   !.inits = n, !.lastInit = "ok",
                   !.scene = n, !.camera = n, !.renderer = n,
                   !.aspectOf = containerId,
                   !.canvasIn[containerId] = {n},
                   !.cube = n, !.particles = n, !.cubeScale = Res,
                   !.resizeListeners = @ \cup {[inst |-> n, container |-> containerId]}]
       IN [saAnimate(b) EXCEPT !.isInitialized = TRUE]

\* export function initScene(containerId)
initScene(s, containerId) ==
  LET a == IF s.isInitialized THEN cleanupScene(s, "none") ELSE s IN
  IF containerId \notin Containers THEN [a EXCEPT !.lastInit = "notFound"]
  ELSE LET n == a.inits + 1
           b == [a EXCEPT
                   !.inits = n, !.lastInit = "ok",
                   !.scene = n, !.camera = n, !.renderer = n,
                   !.aspectOf = containerId,
                   !.canvasIn[containerId] = {n},
                   !.cube = n, !.particles = n, !.cubeScale = Res,
                   !.resizeListeners = @ \cup {[inst |-> n, container |-> containerId]}]
       IN [saAnimate(b) EXCEPT !.isInitialized = TRUE]

\* updateScene keeping the larger of the stored and the new progress
C19_updateScene_mutant(s, options) ==
  IF ~s.isInitialized THEN s
  ELSE [s EXCEPT !.config = [progress |-> Max(@.progress, options.progress),
                             currentPhase |-> options.currentPhase]]

\* export function updateScene(options)
updateScene(s, options) ==
  IF ~s.isInitialized THEN s ELSE [s EXCEPT !.config = options]

\* the closure handleResize of initScene, for the listener l
saHandleResize(s, l) ==
  IF s.camera = 0 THEN [s EXCEPT !.thrown = TRUE]
  ELSE [s EXCEPT !.aspectOf = l.container]

\* a window resize event: every registered listener runs, oldest first
RECURSIVE DispatchResize(_, _)
DispatchResize(s, ls) ==
  IF ls = {} THEN s
  ELSE LET l == CHOOSE x \in ls : \A y \in ls : x.inst <= y.inst
       IN DispatchResize(saHandleResize(s, l), ls \ {l})

SaInit(containerId) ==
  /\ sa.inits < MaxInits
  /\ sa.rafCount < MaxRaf
  /\ sa' = initScene(sa, containerId)
  /\ UNCHANGED <<dpj, tjs, djs, r3f>>

SaCleanup(failAt) ==
  /\ sa' = cleanupScene(sa, failAt)
  /\ UNCHANGED <<dpj, tjs, djs, r3f>>

SaUpdate(options) ==
  /\ sa' = updateScene(sa, options)
  /\ UNCHANGED <<dpj, tjs, djs, r3f>>

\* the browser runs the oldest pending animation-frame callback
SaFrame ==
  /\ sa.rafCallbacks # {}
  /\ sa.rafCount < MaxRaf
  /\ LET id == CHOOSE x \in sa.rafCallbacks : \A y \in sa.rafCallbacks : x <= y
     IN sa' = saAnimate([sa EXCEPT !.rafCallbacks = @ \ {id}])
  /\ UNCHANGED <<dpj, tjs, djs, r3f>>

SaResize ==
  /\ sa.resizeListeners # {}
  /\ sa' = DispatchResize(sa, sa.resizeListeners)
  /\ UNCHANGED <<dpj, tjs, djs, r3f>>

----------------------------------------------------------------------------
(* initThreeJSScene (threeJSRenderer.ts, src/unnamed/part_007) *)

TjsPhaseInputs == {"intro", "shrink", "shred", "secure"}

\* before the call of initThreeJSScene
tjsInit ==
  [ lifecycle        |-> "new",         \* "new" | "live" | "cleaned"
    canvasAttached   |-> FALSE,         \* container.contains(renderer.domElement)
    disposed         |-> FALSE,         \* renderer.dispose() was called
    rafPending       |-> FALSE,         \* a request of animate is pending
    rafCount         |-> 0,
    listeners        |-> {},            \* window listeners of the instance
    currentProgress  |-> 0,
    currentPhase     |-> "intro",
    cubeScale        |-> 0,             \* cube.scale as animate last set it (0: no cube)
    staleRender      |-> FALSE ]        \* renderer.render ran on the disposed renderer

\* function animate(): re-arms itself first, then draws
tjsAnimate(t) ==
  [t EXCEPT !.rafPending = TRUE,
            !.rafCount = @ + 1,
            !.cubeScale = cubeScaleFor(t.currentProgress),
            !.staleRender = @ \/ t.disposed]

initThreeJSScene(t) ==
  [tjsAnimate([t EXCEPT !.lifecycle = "live", !.canvasAttached = TRUE]) EXCEPT
     !.listeners = {"resize", "update-three-js"}]

\* the cleanup closure returned by initThreeJSScene
tjsCleanup(t) ==
  [t EXCEPT !.lifecycle = "cleaned",
            !.canvasAttached = FALSE,
            !.listeners = {},
            !.disposed = TRUE]

\* function handleSceneUpdate(event)
handleSceneUpdate(t, detail) ==
  [t EXCEPT !.currentProgress = detail.progress,
            !.currentPhase = detail.currentPhase]

TjsInit ==
  /\ tjs.lifecycle = "new"
  /\ tjs' = initThreeJSScene(tjs)
  /\ UNCHANGED <<dpj, sa, djs, r3f>>

TjsCleanup ==
  /\ tjs.lifecycle = "live"
  /\ tjs' = tjsCleanup(tjs)
  /\ UNCHANGED <<dpj, sa, djs, r3f>>

TjsFrame ==
  /\ tjs.rafPending
  /\ tjs.rafCount < MaxRaf
  /\ tjs' = tjsAnimate([tjs EXCEPT !.rafPending = FALSE])
  /\ UNCHANGED <<dpj, sa, djs, r3f>>

TjsSceneUpdate(detail) ==
  /\ "update-three-js" \in tjs.listeners
  /\ tjs' = handleSceneUpdate(tjs, detail)
  /\ UNCHANGED <<dpj, sa, djs, r3f>>

----------------------------------------------------------------------------
(* DataJourneyScene and ThreeJSCanvasComponent
   (src/components/SimpleThreeJSCanvas.tsx, lines 198-570) *)

ShrinkStart == 200        \* PHASE_THRESHOLDS[SHRINK].start = 0.2
ShredStart == 400         \* PHASE_THRESHOLDS[SHRINK].end = PHASE_THRESHOLDS[SHRED].start = 0.4
SecureStart == 700        \* PHASE_THRESHOLDS[SHRED].end = PHASE_THRESHOLDS[SECURE].start = 0.7
SecureEnd == 1000         \* PHASE_THRESHOLDS[SECURE].end = 1.0
DataOverlap == 700        \* transitionFactor < 0.7
MaxDelta == 100           \* Math.min(delta, 0.1), in milliseconds
MaxClock == 300           \* frame clocks are modelled up to this many milliseconds
Deltas == {50, 250}       \* the delta a frame reports, in milliseconds

Min(a, b) == IF a < b THEN a ELSE b

\* gsap.parseEase('power2.out'): 1 - (1 - p)^3, rounded down to the grid
power2out(p) == Res - (((Res - p) * (Res - p) * (Res - p)) \div (Res * Res))

\* the initial value of the animationProgress ref
animationProgressInit ==
  [shrink |-> 0, shred |-> 0, secure |-> 0, overall |-> 0,
   currentPhase |-> "intro", transitionFactor |-> 0]

phaseProgress(progress, start, end) ==
  Min(((progress - start) * Res) \div (end - start), Res)

\* updateProgress, with the per-phase values accumulated instead of assigned
C7_updateProgress_mutant(ap, progress) ==
  LET a0 == [ap EXCEPT !.overall = progress]
      a1 == IF progress >= ShrinkStart
              THEN LET pp == phaseProgress(progress, ShrinkStart, ShredStart)
                   IN [a0 EXCEPT
                         !.shrink = Min(@ + pp, Res),
                         !.currentPhase = IF progress < ShredStart THEN "shrink" ELSE @,
                         !.transitionFactor = IF progress < ShredStart THEN pp ELSE @]
              ELSE a0
      a2 == IF progress >= ShredStart
              THEN LET pp == phaseProgress(progress, ShredStart, SecureStart)
                   IN [a1 EXCEPT
                         !.shred = Min(@ + pp, Res),
                         !.currentPhase = IF progress < SecureStart THEN "shred" ELSE @,
                         !.transitionFactor = IF progress < SecureStart THEN pp ELSE @]
              ELSE a1
  IN IF progress >= SecureStart
       THEN LET pp == phaseProgress(progress, SecureStart, SecureEnd)
            IN [a2 EXCEPT !.secure = Min(@ + pp, Res),
                          !.currentPhase = "secure",
                          !.transitionFactor = pp]
       ELSE a2

\* const updateProgress = (progress: number) => {...}
updateProgress(ap, progress) ==
  LET a0 == [ap EXCEPT !.overall = progress]
      a1 == IF progress >= ShrinkStart
              THEN LET pp == phaseProgress(progress, ShrinkStart, ShredStart)
                   IN [a0 EXCEPT
                         !.shrink = pp,
                         !.currentPhase = IF progress < ShredStart THEN "shrink" ELSE @,
                         !.transitionFactor = IF progress < ShredStart THEN pp ELSE @]
              ELSE a0
      a2 == IF progress >= ShredStart
              THEN LET pp == phaseProgress(progress, ShredStart, SecureStart)
                   IN [a1 EXCEPT
                         !.shred = pp,
                         !.currentPhase = IF progress < SecureStart THEN "shred" ELSE @,
                         !.transitionFactor = IF progress < SecureStart THEN pp ELSE @]
              ELSE a1
  IN IF progress >= SecureStart
       THEN LET pp == phaseProgress(progress, SecureStart, SecureEnd)
            IN [a2 EXCEPT !.secure = pp,
                          !.currentPhase = "secure",
                          !.transitionFactor = pp]
       ELSE a2

\* group visibility as the useFrame callback assigns it
frameVisibility(ap) ==
  [ data      |-> \/ ap.currentPhase \in {"intro", "shrink"}
                  \/ (ap.currentPhase = "shred" /\ ap.transitionFactor < DataOverlap),
    fragments |-> ap.currentPhase \in {"shred", "secure"},
    lock      |-> ap.currentPhase = "secure" ]

AllVisible == [data |-> TRUE, fragments |-> TRUE, lock |-> TRUE]

\* before ThreeJSCanvasComponent renders
djsInit ==
  [ lifecycle         |-> "new",        \* "new" | "mounted"
    progress          |-> 0,            \* the progress prop
    phaseKey          |-> "intro",      \* the currentPhase prop, key of the Canvas
    animationProgress |-> animationProgressInit,
    visible           |-> AllVisible,   \* .visible of dataRef, fragmentsRef, lockRef
    timeRef           |-> 0,            \* timeRef.current, in milliseconds
    invalidated       |-> FALSE ]       \* a frame was requested (frameloop="demand")

\* the progress effect: updateProgress(eased), then invalidate()
progressEffect(d) ==
  [d EXCEPT !.animationProgress = updateProgress(@, power2out(d.progress)),
            !.invalidated = TRUE]

\* mounting the Canvas: fresh refs, then the effects
mountScene(d, progress, phase) ==
  progressEffect([d EXCEPT !.lifecycle = "mounted",
                           !.progress = progress,
                           !.phaseKey = phase,
                           !.animationProgress = animationProgressInit,
                           !.visible = AllVisible,
                           !.timeRef = 0])

DjsMount(progress, phase) ==
  /\ djs.lifecycle = "new"
  /\ djs' = mountScene(djs, progress, phase)
  /\ UNCHANGED <<dpj, sa, tjs, r3f>>

\* the parent renders with a new progress: the effect runs when the prop changed
DjsSetProgress(progress) ==
  /\ djs.lifecycle = "mounted"
  /\ djs' = IF progress = djs.progress THEN djs
            ELSE progressEffect([djs EXCEPT !.progress = progress])
  /\ UNCHANGED <<dpj, sa, tjs, r3f>>

\* the parent renders with a new currentPhase: key changes, the Canvas remounts
DjsSetPhase(phase) ==
  /\ djs.lifecycle = "mounted"
  /\ djs' = IF phase = djs.phaseKey THEN djs
            ELSE mountScene(djs, djs.progress, phase)
  /\ UNCHANGED <<dpj, sa, tjs, r3f>>

\* const safeDelta = Math.min(delta, 0.1)
safeDelta(delta) == Min(delta, MaxDelta)

\* the useFrame callback of DataJourneyScene
djsUseFrame(d, delta) ==
  [d EXCEPT !.timeRef = @ + safeDelta(delta),
            !.visible = frameVisibility(d.animationProgress)]

\* a display frame: with frameloop="demand" the frame callbacks run only
\* when a frame was requested by invalidate()
DjsFrame(delta) ==
  /\ djs.lifecycle = "mounted"
  /\ djs.invalidated
  /\ djs.timeRef + safeDelta(delta) <= MaxClock
  /\ djs' = [djsUseFrame(djs, delta) EXCEPT !.invalidated = FALSE]
  /\ UNCHANGED <<dpj, sa, tjs, r3f>>

----------------------------------------------------------------------------
(* DataTransformScene (src/components/DataVisualization.tsx, lines 217-317):
   the per-phase progress values.  value * 2.86 of a progress in thousandths
   is a whole number of hundred-thousandths, so these are exact. *)

Fine == Hundred * Res     \* a per-phase progress F stands for F / Fine
ShrinkFactor == 286       \* value * 2.86, (value - 0.35) * 2.86
SecureFactor == 333       \* (value - 0.70) * 3.33

\* MathUtils.clamp
clamp(x, lo, hi) == Max(lo, Min(x, hi))

shrinkProgress(value) == clamp(value * ShrinkFactor, 0, Fine)
shredProgress(value) == clamp((value - DtsShrinkEnd) * ShrinkFactor, 0, Fine)
secureProgress(value) == clamp((value - DtsShredEnd) * SecureFactor, 0, Fine)

dataTransformInit ==
  [ scrollValue           |-> 0,        \* the MotionValue
    currentShrinkProgress |-> 0,        \* the refs the useFrame callback fills
    currentShredProgress  |-> 0,
    currentSecureProgress |-> 0,
    currentPhaseValue     |-> "shrink",
    timeRef               |-> 0 ]

\* useFrame of DataTransformScene
dataTransformFrame(c, delta) ==
  [c EXCEPT !.timeRef = @ + delta,
            !.currentShrinkProgress = shrinkProgress(c.scrollValue),
            !.currentShredProgress = shredProgress(c.scrollValue),
            !.currentSecureProgress = secureProgress(c.scrollValue),
            !.currentPhaseValue = currentPhase(c.scrollValue)]

\* the scroll MotionValue changes
DtsScroll(value) ==
  /\ r3f' = [r3f EXCEPT !.dataTransform.scrollValue = value]
  /\ UNCHANGED <<dpj, sa, tjs, djs>>

DtsFrame(delta) ==
  /\ r3f.dataTransform.timeRef + delta <= MaxClock
  /\ r3f' = [r3f EXCEPT !.dataTransform = dataTransformFrame(@, delta)]
  /\ UNCHANGED <<dpj, sa, tjs, djs>>

----------------------------------------------------------------------------
(* ShredAnimation (src/components/QuantumFeatures.tsx, lines 224-404).
   Material values in thousandths. *)

Waves == {-Res, 0, Res}   \* Math.sin(time * 10 + i)

\* const pulseScale = 1 + Math.sin(time * 10 + i) * 0.2
pulseScale(wave) == Res + ((wave * 200) \div Res)

\* the materials as the JSX creates them.  An explosion particle is a
\* <Sphere> mesh whose only child element is its material, which is attached
\* as .material: the mesh has no Object3D child.
shredAnimationInit ==
  [ progress |-> 0,
    timeRef  |-> 0,
    fragment |-> [emissiveIntensity |-> 500, opacity |-> Res],
    particle |-> [emissiveIntensity |-> 800, opacity |-> 700,
                  visible |-> FALSE, children |-> 0],
    central  |-> [emissiveIntensity |-> Res, opacity |-> 0] ]

\* useFrame of ShredAnimation; boxMesh: fragment.children[0] is a mesh with
\* a material
shredAnimationFrame(c, delta, wave, boxMesh) ==
  LET f == IF boxMesh
             THEN [c.fragment EXCEPT
                     !.emissiveIntensity = 500 + ((c.progress * 500) \div Res),
                     !.opacity = IF c.progress > 800
                                   THEN Res - ((c.progress - 800) * 5)
                                   ELSE @]
             ELSE c.fragment
      v == [c.particle EXCEPT !.visible = c.progress > 200]
      q == IF v.children > 0
             THEN [v EXCEPT
                     !.emissiveIntensity = 800 + ((c.progress * 700) \div Res),
                     !.opacity = IF c.progress < 200 THEN 0
                                 ELSE (Min(Res, c.progress * 2) * pulseScale(wave)) \div Res]
             ELSE v
  IN [c EXCEPT !.timeRef = @ + delta, !.fragment = f, !.particle = q]

\* the parent renders ShredAnimation with a new progress prop
shredAnimationRender(c, progress) ==
  [c EXCEPT !.progress = progress,
            !.central.opacity = (300 * progress) \div Res]

ShredSetProgress(progress) ==
  /\ r3f' = [r3f EXCEPT !.shredAnimation = shredAnimationRender(@, progress)]
  /\ UNCHANGED <<dpj, sa, tjs, djs>>

ShredFrame(delta, wave, boxMesh) ==
  /\ r3f.shredAnimation.timeRef + delta <= MaxClock
  /\ r3f' = [r3f EXCEPT !.shredAnimation = shredAnimationFrame(@, delta, wave, boxMesh)]
  /\ UNCHANGED <<dpj, sa, tjs, djs>>

----------------------------------------------------------------------------
(* QuantaMorphicScene (src/components/QuantaMorphicScene.tsx): Scene and
   DataCube.  animationState values and material values in thousandths. *)

PHASES == [INTRO |-> -1, SHRINK |-> 0, SHRED |-> 1, SECURE |-> 2]
PhaseEvents == {-1, 0, 1, 2}   \* e.detail.phase

dataCubeInit ==
  [ mounted        |-> FALSE,
    phase          |-> PHASES.INTRO,     \* useState(PHASES.INTRO) of Scene
    animationState |-> [shrink |-> 0, shred |-> 0, secure |-> 0],
    visible        |-> [mesh |-> TRUE, fragments |-> FALSE, lock |-> FALSE],
    meshEmissive     |-> 200,            \* emissiveIntensity of the cube
    fragmentEmissive |-> 500,            \* emissiveIntensity of a fragment
    fragmentOpacity  |-> 900,
    timeRef        |-> 0 ]

\* the two handlePhaseChange listeners of 'updateAnimationState'
handlePhaseChange(c, newPhase) ==
  [c EXCEPT !.phase = newPhase,
            !.animationState =
               [shrink |-> IF newPhase = PHASES.SHRINK THEN Res ELSE 0,
                shred  |-> IF newPhase = PHASES.SHRED THEN Res ELSE 0,
                secure |-> IF newPhase = PHASES.SECURE THEN Res ELSE 0]]

\* useFrame of DataCube, with its secure-phase opacity changed
C25_dataCubeFrame_mutant(c, delta) ==
  LET t == [c EXCEPT !.timeRef = @ + delta]
      a == IF c.phase = PHASES.SHRINK \/ c.animationState.shrink > 0
             THEN [t EXCEPT
                     !.meshEmissive = 200 + ((c.animationState.shrink * 800) \div Res),
                     !.visible.fragments = FALSE,
                     !.visible.lock = FALSE]
             ELSE t
      b == IF c.phase = PHASES.SHRED \/ c.animationState.shred > 0
             THEN [a EXCEPT
                     !.visible = [mesh |-> FALSE, fragments |-> TRUE, lock |-> FALSE],
                     !.fragmentEmissive = 200 + ((c.animationState.shred * 800) \div Res)]
             ELSE a
  IN IF c.phase = PHASES.SECURE \/ c.animationState.secure > 0
       THEN [b EXCEPT
               !.visible = [mesh |-> FALSE, fragments |-> TRUE, lock |-> TRUE],
               !.fragmentEmissive = 200 + ((c.animationState.secure * 800) \div Res),
               !.fragmentOpacity = Res - ((c.animationState.secure * 1300) \div Res)]
       ELSE b

\* useFrame of DataCube
dataCubeFrame(c, delta) ==
  LET t == [c EXCEPT !.timeRef = @ + delta]
      a == IF c.phase = PHASES.SHRINK \/ c.animationState.shrink > 0
             THEN [t EXCEPT
                     !.meshEmissive = 200 + ((c.animationState.shrink * 800) \div Res),
                     !.visible.fragments = FALSE,
                     !.visible.lock = FALSE]
             ELSE t
      b == IF c.phase = PHASES.SHRED \/ c.animationState.shred > 0
             THEN [a EXCEPT
                     !.visible = [mesh |-> FALSE, fragments |-> TRUE, lock |-> FALSE],
                     !.fragmentEmissive = 200 + ((c.animationState.shred * 800) \div Res)]
             ELSE a
  IN IF c.phase = PHASES.SECURE \/ c.animationState.secure > 0
       THEN [b EXCEPT
               !.visible = [mesh |-> FALSE, fragments |-> TRUE, lock |-> TRUE],
               !.fragmentEmissive = 200 + ((c.animationState.secure * 800) \div Res),
               !.fragmentOpacity = Res - ((c.animationState.secure * 300) \div Res)]
       ELSE b

\* QuantaMorphicScene mounts: the effects register the listeners
QmsMount ==
  /\ ~r3f.dataCube.mounted
  /\ r3f' = [r3f EXCEPT !.dataCube = [dataCubeInit EXCEPT !.mounted = TRUE]]
  /\ UNCHANGED <<dpj, sa, tjs, djs>>

\* window.dispatchEvent(new CustomEvent('updateAnimationState', ...))
QmsPhaseEvent(newPhase) ==
  /\ r3f.dataCube.mounted
  /\ r3f' = [r3f EXCEPT !.dataCube = handlePhaseChange(@, newPhase)]
  /\ UNCHANGED <<dpj, sa, tjs, djs>>

QmsFrame(delta) ==
  /\ r3f.dataCube.mounted
  /\ r3f.dataCube.timeRef + delta <= MaxClock
  /\ r3f' = [r3f EXCEPT !.dataCube = dataCubeFrame(@, delta)]
  /\ UNCHANGED <<dpj, sa, tjs, djs>>

----------------------------------------------------------------------------
(* ShrinkAnimation (src/unnamed/part_005) and DataObject
   (src/components/DataObject.tsx) *)

\* the components before any frame
r3fInit ==
  [ shrinkAnimation |-> [timeRef |-> 0],
    dataObject      |-> [timeRef |-> 0],
    shredAnimation  |-> shredAnimationInit,
    dataCube        |-> dataCubeInit,
    dataTransform   |-> dataTransformInit ]

\* useFrame of ShrinkAnimation: timeRef.current += delta
shrinkAnimationFrame(c, delta) == [c EXCEPT !.timeRef = @ + delta]

\* useFrame of DataObject: timeRef.current += delta
dataObjectFrame(c, delta) == [c EXCEPT !.timeRef = @ + delta]

ShrinkAnimationFrame(delta) ==
  /\ r3f.shrinkAnimation.timeRef + delta <= MaxClock
  /\ r3f' = [r3f EXCEPT !.shrinkAnimation = shrinkAnimationFrame(@, delta)]
  /\ UNCHANGED <<dpj, sa, tjs, djs>>

DataObjectFrame(delta) ==
  /\ r3f.dataObject.timeRef + delta <= MaxClock
  /\ r3f' = [r3f EXCEPT !.dataObject = dataObjectFrame(@, delta)]
  /\ UNCHANGED <<dpj, sa, tjs, djs>>

----------------------------------------------------------------------------
(* Specifications *)

SampleProgress == {0, 100, 200, 340, 360, 500, 710, 1000}

DjsPhaseInputs == {"intro", "shred"}

Init ==
  /\ dpj = dpjInit
  /\ sa = saInit
  /\ tjs = tjsInit
  /\ djs = djsInit
  /\ r3f = r3fInit

\* DataProtectionJourney: every lifecycle, frame, timer, scroll and resize event
NextJourney ==
  \/ \E fail \in BOOLEAN : Mount(fail)
  \/ Unmount
  \/ \E fail \in BOOLEAN : Frame(fail)
  \/ \E fail \in BOOLEAN : IntervalTick(fail)
  \/ \E p \in SampleProgress : ScrollUpdate(p)
  \/ LeaveBack
  \/ \E w \in Widths, h \in Heights : Resize(w, h)

SpecJourney == Init /\ [][NextJourney]_vars

\* DataProtectionJourney's scroll handler over every progress value
NextScroll ==
  \/ \E fail \in BOOLEAN : Mount(fail)
  \/ \E p \in Progress : ScrollUpdate(p)
  \/ LeaveBack

SpecScroll == Init /\ [][NextScroll]_vars

\* the standalone renderer: any sequence of its exports and browser events
NextStandalone ==
  \/ \E id \in ContainerIds : SaInit(id)
  \/ \E failAt \in SaFaults : SaCleanup(failAt)
  \/ \E p \in SaProgressInputs, ph \in SaPhaseInputs :
       SaUpdate([progress |-> p, currentPhase |-> ph])
  \/ SaFrame
  \/ SaResize

SpecStandalone == Init /\ [][NextStandalone]_vars

\* initThreeJSScene: one instance, its cleanup and the browser's events
NextRenderer ==
  \/ TjsInit
  \/ TjsCleanup
  \/ TjsFrame
  \/ \E p \in SaProgressInputs, ph \in TjsPhaseInputs :
       TjsSceneUpdate([progress |-> p, currentPhase |-> ph])

SpecRenderer == Init /\ [][NextRenderer]_vars

\* the two playhead consumers: DataProtectionJourney's scroll handler and
\* DataJourneyScene's progress effect
NextPlayhead ==
  \/ \E fail \in BOOLEAN : Mount(fail)
  \/ \E p \in SampleProgress : ScrollUpdate(p)
  \/ LeaveBack
  \/ \E p \in SampleProgress, ph \in DjsPhaseInputs : DjsMount(p, ph)
  \/ \E p \in SampleProgress : DjsSetProgress(p)
  \/ \E ph \in DjsPhaseInputs : DjsSetPhase(ph)
  \/ \E delta \in Deltas : DjsFrame(delta)

SpecPlayhead == Init /\ [][NextPlayhead]_vars

UpdateProgressInputs == {500, 1200}
SaOptions == [progress : UpdateProgressInputs, currentPhase : SaPhaseInputs]
TjsDetails == [progress : UpdateProgressInputs, currentPhase : SaPhaseInputs]
ScrollInputs == {0, 500}  \* self.progress lies in [0,1]

\* the three receivers of progress updates, each with its frame loop
NextUpdates ==
  \/ SaInit("a")
  \/ SaCleanup("none")
  \/ \E o \in SaOptions : SaUpdate(o)
  \/ SaFrame
  \/ TjsInit
  \/ \E d \in TjsDetails : TjsSceneUpdate(d)
  \/ TjsFrame
  \/ Mount(FALSE)
  \/ \E p \in ScrollInputs : ScrollUpdate(p)

SpecUpdates == Init /\ [][NextUpdates]_vars

\* DataProtectionJourney on the page that creates its own ScrollTriggers
NextTriggers ==
  \/ Mount(FALSE)
  \/ PageInit
  \/ Unmount
  \/ \E fail \in BOOLEAN : Frame(fail)
  \/ \E p \in ScrollInputs : ScrollUpdate(p)
  \/ \E w \in Widths, h \in Heights : Resize(w, h)

SpecTriggers == Init /\ [][NextTriggers]_vars

\* the per-frame callbacks of the react-three-fiber scenes
NextFrames ==
  \/ \E p \in ScrollInputs : DjsMount(p, "intro")
  \/ \E p \in ScrollInputs : DjsSetProgress(p)
  \/ \E delta \in Deltas : DjsFrame(delta)
  \/ \E delta \in Deltas : ShrinkAnimationFrame(delta)
  \/ \E delta \in Deltas : DataObjectFrame(delta)

SpecFrames == Init /\ [][NextFrames]_vars

ShredProgressInputs == {0, 500, 900, 1000}

\* the materials the scenes animate: ShredAnimation, DataCube and the master
\* timeline of DataProtectionJourney
NextMaterials ==
  \/ \E p \in ShredProgressInputs : ShredSetProgress(p)
  \/ \E delta \in Deltas, wave \in Waves, boxMesh \in BOOLEAN :
       ShredFrame(delta, wave, boxMesh)
  \/ QmsMount
  \/ \E ph \in PhaseEvents : QmsPhaseEvent(ph)
  \/ \E delta \in Deltas : QmsFrame(delta)
  \/ Mount(FALSE)

SpecMaterials == Init /\ [][NextMaterials]_vars

\* QuantaMorphicScene: phase events and frames
NextCube ==
  \/ QmsMount
  \/ \E ph \in PhaseEvents : QmsPhaseEvent(ph)
  \/ \E delta \in Deltas : QmsFrame(delta)

SpecCube == Init /\ [][NextCube]_vars

DtsInputs == {0, 100, 349, 350, 351, 500, 699, 700, 701, 850, 999, 1000}

\* DataTransformScene: scroll values and frames
NextTransform ==
  \/ \E v \in DtsInputs : DtsScroll(v)
  \/ \E delta \in Deltas : DtsFrame(delta)

SpecTransform == Init /\ [][NextTransform]_vars

----------------------------------------------------------------------------
(* Claims *)

\* C1: for every scroll progress p in [0,1] the phase lookup returns exactly
\* one of Shrink, Shred, Secure: Shrink for 0 <= p < 0.35, Shred for
\* 0.35 <= p < 0.70, Secure for 0.70 <= p <= 1; the scroll-update handler's
\* stage and DataTransformScene's currentPhase agree with that partition.
C1_PhasePartition ==
  dpj.updated =>
    LET p == dpj.stProgress
        st == dpj.currentStage
    IN /\ p \in 0 .. 1000
       /\ st \in {"shrink", "shred", "secure"}
       /\ (st = "shrink") <=> (0 <= p /\ p < 350)
       /\ (st = "shred") <=> (350 <= p /\ p < 700)
       /\ (st = "secure") <=> (700 <= p /\ p <= 1000)
       /\ currentPhase(p) = st

\* C1 witness: an update at the boundary 0.35 has been handled
C1_Witness ==
  dpj.updated /\ dpj.stProgress = 350 /\ dpj.currentStage = "shred"

\* the phase lookup of the claims, with display labels
ClaimPhaseFor(p) ==
  IF p < 350 THEN "Shrink" ELSE IF p < 700 THEN "Shred" ELSE "Secure"

\* C2: after each scroll update the reported percentage is round(100*p) and
\* the stage name shown by the progress indicator is phaseFor(p).
C2_ReportedPhase ==
  dpj.updated =>
    /\ dpj.scrollProgress = (dpj.stProgress + 5) \div 10
    /\ getProgressBarColors(dpj.scrollProgress) = ClaimPhaseFor(dpj.stProgress)

\* C3: after unmount no animation-frame request and no interval timer
\* registered by the instance remains pending.
C3_NoPendingCallbacks ==
  dpj.lifecycle = "unmounted" => (dpj.rafCallbacks = {} /\ ~dpj.interval)

\* C5: after DataProtectionJourney unmounts every tween and timeline it
\* created (master timeline, orbit tweens, the lock's repeating scale and
\* rotation tweens) has been killed.
C5_AllTweensKilled ==
  dpj.lifecycle = "unmounted" => dpj.tweens = NoTweens

\* C9: once the per-frame callback has thrown, the failure is logged once
\* and the loop is not re-armed for that mounted instance.
C9_LoopStaysStopped ==
  (dpj.lifecycle = "mounted" /\ dpj.loopErrors > 0) =>
    /\ dpj.loopErrors = 1
    /\ dpj.animationFrameRef = 0
    /\ \A r \in dpj.rafCallbacks : r.cb # "animate"

\* C4: a callback registered by an instance that fires after that instance's
\* cleanupScene is a no-op and does not throw.
C4_StaleCallbacksAreNoOps ==
  ~sa.thrown

C6_LoopStoppedAfterCleanup ==
  tjs.lifecycle = "cleaned" => (~tjs.rafPending /\ ~tjs.staleRender)

\* C7: setting the playhead to the value it already has leaves the
\* playhead-driven state as it is: a second updateProgress(x) returns the
\* per-phase progress state of the first, and a second onUpdate with the same
\* self.progress returns the handler's state of the first.
C7_SetPlayheadIdempotent ==
  /\ djs.lifecycle = "mounted" =>
       /\ updateProgress(djs.animationProgress, power2out(djs.progress))
            = djs.animationProgress
       /\ frameVisibility(updateProgress(djs.animationProgress, power2out(djs.progress)))
            = frameVisibility(djs.animationProgress)
  /\ dpj.updated => onUpdate(dpj, dpj.stProgress) = dpj

\* C7 witness: updates reached the Shred phase in both components
C7_Witness ==
  /\ djs.lifecycle = "mounted"
  /\ djs.animationProgress.currentPhase = "shred"
  /\ djs.animationProgress.shrink = Res
  /\ djs.animationProgress.shred > 0
  /\ dpj.updated
  /\ dpj.playhead = 500

\* C8: whenever the progress is back at 0 the playhead-derived state (the
\* per-phase progress values, the current phase, and the group visibility
\* derived from them) equals the state at progress 0 before any scroll.
C8_ReturnsToInitialState ==
  (djs.lifecycle = "mounted" /\ djs.progress = 0) =>
    /\ djs.animationProgress = animationProgressInit
    /\ frameVisibility(djs.animationProgress) = frameVisibility(animationProgressInit)

\* C11: a container resize sets the camera aspect to width/height and the
\* renderer size to width x height, and leaves the scene graph as it is: the
\* scene objects are not rebuilt, whatever the old and the new width.
C11_ResizeKeepsSceneGraph ==
  [][\A w \in Widths, h \in Heights :
       (dpj.resizeListener /\ Resize(w, h)) =>
         /\ dpj'.aspect.w * h = w * dpj'.aspect.h
         /\ dpj'.rendererSize = [w |-> w, h |-> h]
         /\ dpj'.builds = dpj.builds
         /\ dpj'.groupRefs = dpj.groupRefs]_vars

\* the position the claimed teardown order gives to a logged step
TeardownRank(step) ==
  CASE step = "cancelFrame" -> 1
    [] step = "killTweens" -> 2
    [] step \in {"dispose", "detach"} -> 3
    [] step = "removeCanvas" -> 4
    [] OTHER -> 5

\* C12: the steps of a teardown run in the order (1) cancel the pending frame
\* callback, (2) kill tweens and timelines, (3) detach and dispose geometries
\* and materials, (4) remove the render surface from the document, (5) null
\* the owning references; no step runs before a lower-numbered one.
C12_TeardownInOrder ==
  \A i, k \in 1 .. Len(sa.teardown) :
    i < k => TeardownRank(sa.teardown[i]) <= TeardownRank(sa.teardown[k])

\* C13: an exception raised by a teardown step is caught, does not reach the
\* caller, and the remaining steps still run: the scene is fully torn down.
C13_TeardownIsTotal ==
  sa.faultAt # "none" =>
    /\ ~sa.propagated
    /\ ~sa.isInitialized
    /\ sa.renderer = 0 /\ sa.scene = 0 /\ sa.camera = 0
    /\ sa.cube = 0 /\ sa.particles = 0
    /\ \A c \in Containers : sa.canvasIn[c] = {}

\* C15: over any number of init / cleanup cycles the window listeners the
\* module has registered never outnumber its live instances.
C15_ListenersRemoved ==
  Cardinality(sa.resizeListeners) <= (IF sa.isInitialized THEN 1 ELSE 0)

\* C16: initScene with a container id that matches no element reports the
\* failure and leaves the module state, a live scene included, as it was.
C16_MissingContainerSkips ==
  [][SaInit("missing") =>
       /\ sa'.lastInit = "notFound"
       /\ [sa' EXCEPT !.lastInit = sa.lastInit] = sa]_vars

\* C17: a progress outside [0,1] given to updateScene is clamped before it
\* is used: the stored progress lies in [0,1] and the cube scale is the one
\* of the clamped value.
C17_ProgressClamped ==
  /\ sa.config.progress \in 0 .. 1000
  /\ sa.cube # 0 => sa.cubeScale \in 200 .. 1000

\* C14: after DataProtectionJourney unmounts every geometry and material
\* the instance created (data, shred and orbit particles, lock parts) has
\* been disposed and its objects are detached from the scene graph.
C14_AllResourcesDisposed ==
  dpj.lifecycle = "unmounted" => (dpj.undisposed = {} /\ dpj.inScene = {})

\* C18: each scroll-progress update p sets the master timeline's playhead
\* to clamp(p, 0, 1) exactly once and requests exactly one redraw.
C18_OnePlayheadSetOneRedraw ==
  [][\A p \in SampleProgress :
       ScrollUpdate(p) =>
         /\ dpj'.playhead = Max(0, Min(p, 1000))
         /\ dpj'.lastUpdate = [playheadSets |-> 1, redraws |-> 1]]_vars

\* C20: the master timeline is keyed by normalized time: every segment starts
\* and ends within [0,1], so the playhead set from scroll progress p stands
\* at the authored offset p.
C20_TimelineNormalized ==
  dpj.timelineRef =>
    /\ \A g \in dpj.segments :
         0 <= g.offset /\ g.offset <= 1000 /\ segmentEnd(g) <= 1000
    /\ dpj.time = dpj.playhead

\* C19: progress updates are applied in arrival order and the last one wins:
\* each update to an initialised scene replaces the stored progress and phase
\* (updateScene, handleSceneUpdate, tl.progress), and the next frame computes
\* from the stored values only.
C19_LastUpdateWins ==
  /\ [][\A o \in SaOptions :
          (sa.isInitialized /\ SaUpdate(o)) => sa'.config = o]_vars
  /\ [][(SaFrame /\ sa'.animationId # sa.animationId) =>
          sa'.cubeScale = cubeScaleFor(sa.config.progress)]_vars
  /\ [][\A d \in TjsDetails :
          TjsSceneUpdate(d) =>
            (tjs'.currentProgress = d.progress /\ tjs'.currentPhase = d.currentPhase)]_vars
  /\ [][TjsFrame => tjs'.cubeScale = cubeScaleFor(tjs.currentProgress)]_vars
  /\ [][\A p \in ScrollInputs : ScrollUpdate(p) => dpj'.playhead = p]_vars

\* C19 witness: a frame drew progress 0.5, a later update stored 1.2, and a
\* second update reached the other two receivers
C19_Witness ==
  /\ sa.isInitialized
  /\ sa.config.progress = 1200
  /\ sa.cubeScale = 600
  /\ tjs.currentProgress = 1200
  /\ tjs.cubeScale = 600
  /\ dpj.updated /\ dpj.playhead = 500

\* the fades of a transition: segments taking the outgoing group's opacity
\* to 0 and the incoming group's opacity to 1
fadeOuts(segments, x) ==
  {g \in segments : g.duration > 0 /\ \E o \in opacityTweens :
     o.name = g.name /\ o.group = transitionGroups[x].out /\ o.to = 0}
fadeIns(segments, x) ==
  {g \in segments : g.duration > 0 /\ \E o \in opacityTweens :
     o.name = g.name /\ o.group = transitionGroups[x].in /\ o.to = Res}

\* C21: at each phase transition of the master timeline the outgoing group
\* has an opacity fade to 0 that ends exactly at the transition offset and
\* the incoming group has an opacity fade to 1 that starts at that offset.
C21_FadesMeetAtTransition ==
  dpj.timelineRef =>
    \A x \in Transitions :
      /\ fadeOuts(dpj.segments, x) # {}
      /\ fadeIns(dpj.segments, x) # {}
      /\ \A g \in fadeOuts(dpj.segments, x) : segmentEnd(g) = transitionOffset[x]
      /\ \A g \in fadeIns(dpj.segments, x) : segmentStart(g) = transitionOffset[x]

\* timeline instants in hundredths of a second, up to the timeline's end
Instants == {10 * k : k \in 0 .. 130}

\* the crossfade window of a transition: from the first start to the last
\* end of its fades
inWindow(segments, x, t) ==
  LET fs == fadeOuts(segments, x) \cup fadeIns(segments, x)
  IN /\ \E g \in fs : segmentStart(g) <= t
     /\ \E g \in fs : t <= segmentEnd(g)

\* C22: throughout each crossfade window the outgoing group's opacity plus
\* the incoming group's opacity stays within a small tolerance (here 0.1)
\* of 1.0, for every mesh of the two groups.
C22_CrossfadeSumNearOne ==
  dpj.timelineRef =>
    \A x \in Transitions, r \in RandomDraws, t \in Instants :
      LET out == opacityAt(meshSegments(dpj.segments, transitionGroups[x].out, r),
                           transitionGroups[x].out, t)
          in  == opacityAt(meshSegments(dpj.segments, transitionGroups[x].in, r),
                           transitionGroups[x].in, t)
      IN (inWindow(dpj.segments, x, t) /\ out # -1 /\ in # -1) =>
           /\ out + in >= Res - (Res \div 10)
           /\ out + in <= Res + (Res \div 10)


\* C23: while DataJourneyScene is mounted its per-frame callback runs on
\* every display frame: a frame is due in every mounted state, also when no
\* progress update has arrived since the last frame.
C23_FrameOnEveryDisplayFrame ==
  djs.lifecycle = "mounted" => djs.invalidated

\* C24: no frame callback advances its animation clock by more than 0.1 s
\* in one frame, whatever delta the frame reports.
C24_ElapsedTimeClamped ==
  [][/\ djs'.timeRef - djs.timeRef <= MaxDelta
     /\ r3f'.shrinkAnimation.timeRef - r3f.shrinkAnimation.timeRef <= MaxDelta
     /\ r3f'.dataObject.timeRef - r3f.dataObject.timeRef <= MaxDelta]_vars

\* an opacity in thousandths lies in [0,1]
inUnit(x) == 0 <= x /\ x <= Res

C28_VisibilityFromPhaseAlone ==
  r3f.dataCube.mounted =>
    LET shown == dataCubeFrame(r3f.dataCube, 0).visible
        fresh == dataCubeFrame(
                   handlePhaseChange([dataCubeInit EXCEPT !.mounted = TRUE],
                                     r3f.dataCube.phase), 0).visible
    IN /\ shown = fresh
       /\ shown.mesh \/ shown.fragments \/ shown.lock

\* the per-phase progress values of DataTransformScene at scroll value v
dtsProgress(v) ==
  [shrink |-> shrinkProgress(v), shred |-> shredProgress(v),
   secure |-> secureProgress(v)]

\* C30: for the scroll value v in [0,1] each of shrinkProgress,
\* shredProgress and secureProgress lies in [0,1], is 0 until its phase
\* starts (0, 0.35, 0.70), does not decrease with v, and is 1 at and after
\* the end of its phase (0.35, 0.70, 1.0); the refs hold these values after
\* a frame.
C30_PhaseProgressRamps ==
  LET v == r3f.dataTransform.scrollValue
      now == dtsProgress(v)
      next == dtsProgress(v + 1)
      after == dataTransformFrame(r3f.dataTransform, 0)
  IN /\ \A k \in DOMAIN now :
          0 <= now[k] /\ now[k] <= Fine /\ (v < Res => now[k] <= next[k])
     /\ v <= DtsShrinkEnd => now.shred = 0
     /\ v <= DtsShredEnd => now.secure = 0
     /\ v = 0 => now.shrink = 0
     /\ v >= DtsShrinkEnd => now.shrink = Fine
     /\ v >= DtsShredEnd => now.shred = Fine
     /\ v >= Res => now.secure = Fine
     /\ after.currentShrinkProgress = now.shrink
     /\ after.currentShredProgress = now.shred
     /\ after.currentSecureProgress = now.secure

\* C26: while DataProtectionJourney is mounted (its scene was set up), after
\* any sequence of resize, scroll and frame events the renderer is still
\* live and the frame loop is armed or can be re-armed by the interval.
C26_RendererStaysLive ==
  (dpj.lifecycle = "mounted" /\ ~dpj.initError) =>
    /\ dpj.rendererRef
    /\ dpj.animationFrameRef # 0 \/ dpj.interval

\* C27: DataProtectionJourney kills only the ScrollTriggers it created: a
\* trigger of the page that is live before a setup, rebuild, update or
\* unmount step of the component is live after it.
C27_ForeignTriggersSurvive ==
  [][\A t \in PageTriggers :
       t \in dpj.scrollTriggers => t \in dpj'.scrollTriggers]_vars

\* C29: in a scroll update the redraw comes after the playhead was set: in
\* onUpdate every render call is preceded by the tl.progress call, and a
\* frame of DataJourneyScene sees the per-phase progress of the current
\* progress prop.
C29_RedrawAfterPlayhead ==
  /\ [][\A p \in ScrollInputs :
          ScrollUpdate(p) =>
            \A i \in DOMAIN dpj'.lastOrder :
              dpj'.lastOrder[i] = "render" =>
                \E k \in 1 .. (i - 1) : dpj'.lastOrder[k] = "progress"]_vars
  /\ [][\A d \in Deltas :
          DjsFrame(d) =>
            djs.animationProgress =
              updateProgress(djs.animationProgress, power2out(djs.progress))]_vars

====
